---- MODULE Spec2Model ----
(***************************************************************************)
(* Model of the per-document indexing pipeline of indexer/indexer.c:       *)
(* indexer_index_json -> index_blob / index_text_field -> lexer callback   *)
(* indexer_handle_slice -> index_term / index_tex / save_offset, and       *)
(* index_maintain.                                                         *)
(*                                                                         *)
(* Every C function is an operator from a program state (a record of the   *)
(* file's static variables and of the five backing stores) to the state    *)
(* after the call.  The record also carries `ev', the ordered list of the  *)
(* calls made on the stores and of the diagnostics printed during the      *)
(* current indexer_index_json invocation.                                  *)
(***************************************************************************)
EXTENDS Naturals, Integers, Sequences, FiniteSets, TLC

VARIABLES prev_docID, cur_position, term_index, math_index, offset_db,
          blob_index_url, blob_index_txt, doc_json, url_field, txt_field,
          ev, pc, faults

vars == <<prev_docID, cur_position, term_index, math_index, offset_db,
          blob_index_url, blob_index_txt, doc_json, url_field, txt_field,
          ev, pc, faults>>

(***************************************************************************)
(* Bounds of the model.                                                    *)
(***************************************************************************)
\* documents the term index may finalize in one run
MaxDocs == 2
\* tokens (positions) indexed in one run, over all documents
MaxTokens == 3
\* store failures (failed put, failed blob write, wrong docID) in one run
MaxFaults == 1
\* tokens indexed in one run of the envelope specification
EnvMaxTokens == 1

\* size of the static envelope buffers, scaled down to symbols
MAX_CORPUS_FILE_SZ == 6

(***************************************************************************)
(* Corpus envelopes.  A file is a sequence of symbols, one per byte of the *)
(* scaled-down buffer: braces, white space, one symbol per JSON member.    *)
(***************************************************************************)
Sym(c, v) == [c |-> c, v |-> v]
NUL    == Sym("NUL", "")
LBRACE == Sym("{", "")
RBRACE == Sym("}", "")
WS     == Sym("ws", "")
JUNK   == Sym("?", "")
Url(v) == Sym("url", v)
Txt(v) == Sym("text", v)

DocShort     == <<LBRACE, Url("a"), Txt("a"), RBRACE>>
DocLong      == <<LBRACE, WS, Url("b"), Txt("b"), RBRACE>>
DocNoText    == <<LBRACE, Url("a"), RBRACE>>
DocNoUrl     == <<LBRACE, Txt("a"), RBRACE>>
DocOversized == <<LBRACE, WS, WS, Url("b"), Txt("b"), RBRACE>>

\* the files of the pipeline specification and of the envelope specification
Files    == {DocShort}
EnvFiles == {DocShort, DocLong, DocNoText, DocNoUrl, DocOversized}

Min(a, b) == IF a < b THEN a ELSE b

\* fread(doc_json, 1, MAX_CORPUS_FILE_SZ, fh): the bytes read overwrite the
\* head of the static buffer, the rest of the buffer keeps its old content.
fread_sz(fh) == Min(Len(fh), MAX_CORPUS_FILE_SZ)
fread(buf, fh) ==
    [i \in 1..MAX_CORPUS_FILE_SZ |-> IF i <= fread_sz(fh) THEN fh[i] ELSE buf[i]]

\* The C string held in a buffer: the bytes before the first NUL.  A buffer
\* that holds no NUL is read past its end; `over' is what the read finds
\* there before a NUL.
CStr(buf, over) ==
    IF \E i \in 1..Len(buf) : buf[i] = NUL
    THEN LET n == CHOOSE i \in 1..Len(buf) :
                     buf[i] = NUL /\ \A j \in 1..(i-1) : buf[j] # NUL
         IN SubSeq(buf, 1, n - 1)
    ELSE buf \o over

HasNul(buf) == \E i \in 1..Len(buf) : buf[i] = NUL
Overreads(buf) == IF HasNul(buf) THEN {<<>>} ELSE {<<>>, <<JUNK>>}

IsMember(x) == x.c \in {"url", "text"}

\* yajl_tree_parse: the text must be one object, followed by white space
\* only (trailing garbage is a parse error).  The tree is the sequence of
\* members, NULL is <<NUL>>.
TreeNull == <<NUL>>
yajl_tree_parse(str) ==
    IF \E k \in 2..Len(str) :
          /\ str[1] = LBRACE
          /\ str[k] = RBRACE
          /\ \A j \in 2..(k-1) : IsMember(str[j]) \/ str[j] = WS
          /\ \A j \in (k+1)..Len(str) : str[j] = WS
    THEN SelectSeq(str, IsMember)
    ELSE TreeNull

\* yajl_tree_get(tr, path, yajl_t_string): the member named path[0]
HasNode(tr, key) == \E i \in 1..Len(tr) : tr[i].c = key
yajl_tree_get(tr, key) ==
    tr[CHOOSE i \in 1..Len(tr) :
          tr[i].c = key /\ \A j \in 1..(i-1) : tr[j].c # key].v

\* get_json_val: [ok, val]; val is what strcpy leaves in the field buffer
get_json_val(json, key, val) ==
    LET tr == yajl_tree_parse(json) IN
    IF tr = TreeNull THEN [ok |-> FALSE, val |-> val, msg |-> "parser error"]
    ELSE IF ~HasNode(tr, key)
         THEN [ok |-> FALSE, val |-> val, msg |-> "JSON node not found"]
         ELSE [ok |-> TRUE, val |-> yajl_tree_get(tr, key), msg |-> ""]

(***************************************************************************)
(* Program state handed from one C function to the next.                   *)
(*   ti      term index      [last, open, cur, docs, nterms]               *)
(*   mi      math index      set of [docID, pos, subpaths]                 *)
(*   ofs     offset store    [map, dirty]: the set of [docID,pos,offset,n] *)
(*           entries, and whether some are not yet flushed                 *)
(*   url_bi, txt_bi          blob channels, the records written, in order  *)
(*   ev      calls on the stores and diagnostics of the current invocation *)
(*   pc      "idle" between documents, "lex" while the lexer runs,         *)
(*           "aborted" after a failed assert(), "exited" after exit()      *)
(*   doc_json, url_field, txt_field   the static buffers                   *)
(***************************************************************************)
Ev(op, docID, pos, ok) == [op |-> op, docID |-> docID, pos |-> pos, ok |-> ok]
Log(s, op, docID, pos, ok) == [s EXCEPT !.ev = Append(@, Ev(op, docID, pos, ok))]

\* printf / fprintf(stderr, ...) of a diagnostic
print(s, msg) == Log(s, msg, 0, 0, TRUE)

(***************************************************************************)
(* The backing stores, as the pipeline uses them (their code is not part   *)
(* of indexer.c).                                                          *)
(***************************************************************************)
\* term_index_doc_begin
term_index_doc_begin(s) ==
    Log([s EXCEPT !.ti.open = TRUE, !.ti.cur = <<>>], "doc_begin", 0, 0, TRUE)

\* term_index_doc_add: a pure append to the open document
term_index_doc_add(s, term) ==
    Log([s EXCEPT !.ti.cur = Append(@, term), !.ti.nterms = @ + 1],
        "doc_add", 0, Len(s.ti.cur), TRUE)

\* the docID term_index_doc_end returns: the store's next identifier, or
\* (skew > 0) an identifier out of the pipeline's predicted sequence
doc_end_ret(s, skew) == s.ti.last + 1 + skew

\* term_index_doc_end: finalizes the open document under that docID
term_index_doc_end(s, skew) ==
    Log([s EXCEPT !.ti.last = doc_end_ret(s, skew),
                  !.ti.open = FALSE,
                  !.ti.cur  = <<>>,
                  !.ti.docs = @ \cup {[docID |-> doc_end_ret(s, skew),
                                       terms |-> s.ti.cur]}],
        "doc_end", doc_end_ret(s, skew), 0, TRUE)

\* math_index_add_tex
math_index_add_tex(s, docID, pos, subpaths) ==
    Log([s EXCEPT !.mi = @ \cup {[docID |-> docID, pos |-> pos,
                                  subpaths |-> subpaths]}],
        "math_add", docID, pos, TRUE)

\* keyval_db_put: stores key -> value, replacing the value of an existing
\* key; a failing put stores nothing
keyval_db_put(s, docID, pos, offset, n_bytes, ok) ==
    Log(IF ok
        THEN [s EXCEPT !.ofs.map =
                 {e \in @ : ~(e.docID = docID /\ e.pos = pos)}
                 \cup {[docID |-> docID, pos |-> pos,
                        offset |-> offset, n_bytes |-> n_bytes]},
                       !.ofs.dirty = TRUE]
        ELSE s,
        "put", docID, pos, ok)

\* keyval_db_flush
keyval_db_flush(s) ==
    Log([s EXCEPT !.ofs.dirty = FALSE], "flush", 0, 0, TRUE)

\* codec_compress with CODEC_GZ, and the raw bytes of an uncompressed blob
codec_compress(str) == [gz |-> TRUE, data |-> str]
raw_bytes(str)      == [gz |-> FALSE, data |-> str]

\* blob_index_write on the URL channel / on the text channel
blob_index_write_url(s, docID, blob, ok) ==
    Log(IF ok THEN [s EXCEPT !.url_bi = Append(@, [docID |-> docID, blob |-> blob])]
              ELSE s,
        "blob_write_url", docID, 0, ok)

blob_index_write_txt(s, docID, blob, ok) ==
    Log(IF ok THEN [s EXCEPT !.txt_bi = Append(@, [docID |-> docID, blob |-> blob])]
              ELSE s,
        "blob_write_txt", docID, 0, ok)

(***************************************************************************)
(* indexer.c                                                               *)
(***************************************************************************)
\* index_blob on the text channel, keyed by prev_docID instead of prev_docID + 1
index_blob_txt_stale_key(s, str, compress, ok) ==
    IF compress
    THEN blob_index_write_txt(s, s.prev_docID, codec_compress(str), ok)
    ELSE blob_index_write_txt(s, s.prev_docID, raw_bytes(str), ok)

\* index_blob(bi, str, str_sz, compress), for bi = blob_index_url and for
\* bi = blob_index_txt.  It returns void: the result of blob_index_write is
\* dropped and nothing is printed.
index_blob_url(s, str, compress, ok) ==
    IF compress
    THEN blob_index_write_url(s, s.prev_docID + 1, codec_compress(str), ok)
    ELSE blob_index_write_url(s, s.prev_docID + 1, raw_bytes(str), ok)

index_blob_txt(s, str, compress, ok) ==
    IF compress
    THEN blob_index_write_txt(s, s.prev_docID + 1, codec_compress(str), ok)
    ELSE blob_index_write_txt(s, s.prev_docID + 1, raw_bytes(str), ok)

\* save_offset ending the process when the put fails
save_offset_fatal(s, offset, n_bytes, ok) ==
    LET s1 == keyval_db_put(s, s.prev_docID + 1, s.cur_position,
                            offset, n_bytes, ok)
    IN IF ~ok THEN [print(s1, "put error") EXCEPT !.pc = "exited"] ELSE s1

\* save_offset(offset, n_bytes); its return value is ignored by both callers
save_offset(s, offset, n_bytes, ok) ==
    LET s1 == keyval_db_put(s, s.prev_docID + 1, s.cur_position,
                            offset, n_bytes, ok)
    IN IF ~ok THEN print(s1, "put error") ELSE s1

\* index_tex saving the offset only of an expression that parsed
index_tex_offset_on_success(s, tex, offset, n_bytes, tex_ok, ok) ==
    LET s1 == IF tex_ok
              THEN save_offset(math_index_add_tex(s, s.prev_docID + 1,
                                                  s.cur_position, tex),
                               offset, n_bytes, ok)
              ELSE print(s, "parsing TeX error")
    IN [s1 EXCEPT !.cur_position = @ + 1]

\* index_tex returning as soon as the parse has failed
index_tex_return_on_failure(s, tex, offset, n_bytes, tex_ok, ok) ==
    IF tex_ok
    THEN [save_offset(math_index_add_tex(s, s.prev_docID + 1, s.cur_position, tex),
                      offset, n_bytes, ok)
            EXCEPT !.cur_position = @ + 1]
    ELSE print(s, "parsing TeX error")

\* index_tex(tex, offset, n_bytes); tex_ok is tex_parse's verdict
index_tex(s, tex, offset, n_bytes, tex_ok, ok) ==
    LET s1 == IF tex_ok
              THEN math_index_add_tex(s, s.prev_docID + 1, s.cur_position, tex)
              ELSE print(s, "parsing TeX error")
        s2 == save_offset(s1, offset, n_bytes, ok)
    IN [s2 EXCEPT !.cur_position = @ + 1]

\* index_term without the increment of cur_position
index_term_no_increment(s, term, offset, n_bytes, ok) ==
    save_offset(term_index_doc_add(s, term), offset, n_bytes, ok)

\* index_term saving the offset before the term is added to the term index
index_term_offset_first(s, term, offset, n_bytes, ok) ==
    LET s1 == save_offset(s, offset, n_bytes, ok)
        s2 == term_index_doc_add(s1, term)
    IN [s2 EXCEPT !.cur_position = @ + 1]

\* index_term advancing cur_position before it saves the offset
index_term_inc_first(s, term, offset, n_bytes, ok) ==
    LET s1 == term_index_doc_add(s, term)
        s2 == [s1 EXCEPT !.cur_position = @ + 1]
    IN save_offset(s2, offset, n_bytes, ok)

\* index_term(term, offset, n_bytes)
index_term(s, term, offset, n_bytes, ok) ==
    LET s1 == term_index_doc_add(s, term)
        s2 == save_offset(s1, offset, n_bytes, ok)
    IN [s2 EXCEPT !.cur_position = @ + 1]

\* list_foreach(&li, &_index_term, &slice->offset): each segment in list
\* order, its offset made relative to the file; oks[i] is the i-th put
\* list_foreach(&li, &_index_term, ...) without the adjustment of seg->offset
RECURSIVE list_foreach_index_term_no_base(_, _, _, _, _)
list_foreach_index_term_no_base(s, li, slice_offset, oks, i) ==
    IF i > Len(li) THEN s
    ELSE list_foreach_index_term_no_base(
             index_term(s, li[i].str, li[i].offset, li[i].n_bytes, oks[i]),
             li, slice_offset, oks, i + 1)

RECURSIVE list_foreach_index_term(_, _, _, _, _)
list_foreach_index_term(s, li, slice_offset, oks, i) ==
    IF i > Len(li) THEN s
    ELSE list_foreach_index_term(
             index_term(s, li[i].str, li[i].offset + slice_offset,
                        li[i].n_bytes, oks[i]),
             li, slice_offset, oks, i + 1)

\* strip_math_tag and eng_to_lower_case, on the strings of the model
strip_math_tag(str) ==
    IF str = "[imath]x^2[/imath]" THEN "x^2"
    ELSE IF str = "[imath]\\frac{[/imath]" THEN "\\frac{"
    ELSE str

eng_to_lower_case(str) ==
    IF str = "The" THEN "the"
    ELSE IF str = "Is Positive" THEN "is positive"
    ELSE str

\* indexer_handle_slice without the sentinel term of a math slice
indexer_handle_slice_no_sentinel(s, slice, oks) ==
    CASE slice.type = "MATH" ->
           index_tex(s, strip_math_tag(slice.mb_str), slice.offset,
                     slice.str_sz, slice.tex_ok, oks[1])
      [] slice.type = "TEXT" ->
           list_foreach_index_term(s, slice.segs, slice.offset, oks, 1)
      [] slice.type = "ENG_TEXT" ->
           index_term(s, eng_to_lower_case(slice.mb_str), slice.offset,
                      slice.str_sz, oks[1])

\* indexer_handle_slice(slice); slice.segs is what text_segment returns for
\* the lower-cased slice
indexer_handle_slice(s, slice, oks) ==
    CASE slice.type = "MATH" ->
           index_tex(term_index_doc_add(s, "math_exp"),
                     strip_math_tag(slice.mb_str), slice.offset,
                     slice.str_sz, slice.tex_ok, oks[1])
      [] slice.type = "TEXT" ->
           list_foreach_index_term(s, slice.segs, slice.offset, oks, 1)
      [] slice.type = "ENG_TEXT" ->
           index_term(s, eng_to_lower_case(slice.mb_str), slice.offset,
                      slice.str_sz, oks[1])

\* index_maintain without the flush of the offset store
index_maintain_no_flush(s, ran) ==
    LET s1 == Log(s, "maintain", 0, 0, ran) IN
    IF ran
    THEN Log(print(s1, "index maintaining"), "sleep", 0, 0, TRUE)
    ELSE s1

\* index_maintain(); ran is what term_index_maintain returns
index_maintain(s, ran) ==
    LET s1 == Log(s, "maintain", 0, 0, ran) IN
    IF ran
    THEN keyval_db_flush(Log(print(s1, "index maintaining"), "sleep", 0, 0, TRUE))
    ELSE s1

\* index_text_field, up to the call of the lexer
index_text_field_begin(s, fm_ok) ==
    IF ~fm_ok
    THEN [print(s, "fmemopen() function.") EXCEPT !.pc = "exited"]
    ELSE [term_index_doc_begin(s) EXCEPT !.pc = "lex"]

\* index_text_field without the reset of cur_position
index_text_field_end_no_reset(s, txt, blob_ok, skew) ==
    LET s1    == index_blob_txt(s, txt, TRUE, blob_ok)
        docID == doc_end_ret(s1, skew)
        s2    == term_index_doc_end(s1, skew)
        s3    == Log(s2, "assert", docID, 0, docID = s2.prev_docID + 1)
    IN IF docID # s2.prev_docID + 1
       THEN [s3 EXCEPT !.pc = "aborted"]
       ELSE Log([s3 EXCEPT !.prev_docID = docID, !.pc = "idle"],
                "update", docID, 0, TRUE)

\* index_text_field writing the text blob uncompressed
index_text_field_end_raw_blob(s, txt, blob_ok, skew) ==
    LET s1    == index_blob_txt(s, txt, FALSE, blob_ok)
        docID == doc_end_ret(s1, skew)
        s2    == term_index_doc_end(s1, skew)
        s3    == Log(s2, "assert", docID, 0, docID = s2.prev_docID + 1)
    IN IF docID # s2.prev_docID + 1
       THEN [s3 EXCEPT !.pc = "aborted"]
       ELSE Log([s3 EXCEPT !.prev_docID = docID, !.cur_position = 0,
                           !.pc = "idle"],
                "update", docID, 0, TRUE)

\* index_text_field without the call of term_index_doc_end
index_text_field_end_no_end(s, txt, blob_ok, skew) ==
    LET s1    == index_blob_txt(s, txt, TRUE, blob_ok)
        docID == doc_end_ret(s1, skew)
        s3    == Log(s1, "assert", docID, 0, docID = s1.prev_docID + 1)
    IN IF docID # s1.prev_docID + 1
       THEN [s3 EXCEPT !.pc = "aborted"]
       ELSE Log([s3 EXCEPT !.prev_docID = docID, !.cur_position = 0,
                           !.pc = "idle"],
                "update", docID, 0, TRUE)

\* index_text_field with assert() compiled out (NDEBUG)
index_text_field_end_ndebug(s, txt, blob_ok, skew) ==
    LET s1    == index_blob_txt(s, txt, TRUE, blob_ok)
        docID == doc_end_ret(s1, skew)
        s2    == term_index_doc_end(s1, skew)
    IN Log([s2 EXCEPT !.prev_docID = docID, !.cur_position = 0, !.pc = "idle"],
           "update", docID, 0, TRUE)

\* index_text_field writing the text blob after the document has ended
index_text_field_end_late_blob(s, txt, blob_ok, skew) ==
    LET docID == doc_end_ret(s, skew)
        s1    == term_index_doc_end(s, skew)
        s2    == index_blob_txt(s1, txt, TRUE, blob_ok)
        s3    == Log(s2, "assert", docID, 0, docID = s2.prev_docID + 1)
    IN IF docID # s2.prev_docID + 1
       THEN [s3 EXCEPT !.pc = "aborted"]
       ELSE Log([s3 EXCEPT !.prev_docID = docID, !.cur_position = 0,
                           !.pc = "idle"],
                "update", docID, 0, TRUE)

\* index_text_field, from the return of the lexer
index_text_field_end(s, txt, blob_ok, skew) ==
    LET s1    == index_blob_txt(s, txt, TRUE, blob_ok)
        docID == doc_end_ret(s1, skew)
        s2    == term_index_doc_end(s1, skew)
        s3    == Log(s2, "assert", docID, 0, docID = s2.prev_docID + 1)
    IN IF docID # s2.prev_docID + 1
       THEN [s3 EXCEPT !.pc = "aborted"]
       ELSE Log([s3 EXCEPT !.prev_docID = docID, !.cur_position = 0,
                           !.pc = "idle"],
                "update", docID, 0, TRUE)

\* indexer_index_json writing the URL blob as soon as the url is extracted
indexer_index_json_begin_eager_url(s, fh, over, blob_ok, fm_ok) ==
    LET s0   == [s EXCEPT !.ev = <<>>, !.doc_json = fread(s.doc_json, fh)]
        json == CStr(s0.doc_json, over)
        u    == get_json_val(json, "url", s0.url_field)
        s1   == [s0 EXCEPT !.url_field = u.val]
        s1b  == index_blob_url(s1, s1.url_field, FALSE, blob_ok)
        t    == get_json_val(json, "text", s1b.txt_field)
        s2   == [s1b EXCEPT !.txt_field = t.val]
    IN IF fread_sz(fh) = MAX_CORPUS_FILE_SZ
       THEN print(s0, "corpus file too large!")
       ELSE IF ~u.ok THEN print(s1, u.msg)
       ELSE IF ~t.ok THEN print(s2, t.msg)
       ELSE index_text_field_begin(s2, fm_ok)

\* indexer_index_json, up to the call of the lexer.  `over' is what a read
\* past the end of doc_json finds, fm_ok whether fmemopen succeeds.
indexer_index_json_begin(s, fh, over, blob_ok, fm_ok) ==
    LET s0   == [s EXCEPT !.ev = <<>>, !.doc_json = fread(s.doc_json, fh)]
        json == CStr(s0.doc_json, over)
        u    == get_json_val(json, "url", s0.url_field)
        s1   == [s0 EXCEPT !.url_field = u.val]
        t    == get_json_val(json, "text", s1.txt_field)
        s2   == [s1 EXCEPT !.txt_field = t.val]
    IN IF fread_sz(fh) = MAX_CORPUS_FILE_SZ
       THEN print(s0, "corpus file too large!")
       ELSE IF ~u.ok THEN print(s1, u.msg)
       ELSE IF ~t.ok THEN print(s2, t.msg)
       ELSE index_text_field_begin(
                index_blob_url(s2, s2.url_field, FALSE, blob_ok), fm_ok)

\* indexer_index_json, from the return of the lexer
indexer_index_json_end(s, blob_ok, skew, ran) ==
    LET s1 == index_text_field_end(s, s.txt_field, blob_ok, skew)
    IN IF s1.pc = "idle" THEN index_maintain(s1, ran) ELSE s1

(***************************************************************************)
(* The lexer's slices.                                                     *)
(***************************************************************************)
Seg(str, offset, n_bytes) == [str |-> str, offset |-> offset, n_bytes |-> n_bytes]
Slice(type, str, offset, sz, segs, tex_ok) ==
    [type |-> type, mb_str |-> str, offset |-> offset, str_sz |-> sz,
     segs |-> segs, tex_ok |-> tex_ok]

SliceMathOk  == Slice("MATH", "[imath]x^2[/imath]", 4, 18, <<>>, TRUE)
SliceMathBad == Slice("MATH", "[imath]\\frac{[/imath]", 4, 21, <<>>, FALSE)
SliceEng     == Slice("ENG_TEXT", "The", 0, 3, <<>>, TRUE)
SliceText0   == Slice("TEXT", "  ", 22, 2, <<>>, TRUE)
SliceText2   == Slice("TEXT", "Is Positive", 22, 11,
                      <<Seg("is", 0, 2), Seg("positive", 3, 8)>>, TRUE)

Slices == {SliceMathOk, SliceMathBad, SliceEng, SliceText0, SliceText2}

\* segments of the longest segment list
MaxSegs == Len(SliceText2.segs)

\* docIDs a term-index store may already hold when the run starts
InitLast == {0, 1}

\* tokens a slice yields, each with one put
NTokens(slice) == IF slice.type = "TEXT" THEN Len(slice.segs) ELSE 1

\* outcomes of the puts of one slice: the i-th put fails where oks[i] is FALSE
PutOutcomes(slice) ==
    {oks \in [1..MaxSegs -> BOOLEAN] : \A i \in 1..MaxSegs : i > NTokens(slice) => oks[i]}
NFailed(oks) == Cardinality({i \in 1..MaxSegs : ~oks[i]})
B2N(b) == IF b THEN 0 ELSE 1

(***************************************************************************)
(* State machine.                                                          *)
(***************************************************************************)
Cur == [prev_docID |-> prev_docID, cur_position |-> cur_position,
        ti |-> term_index, mi |-> math_index, ofs |-> offset_db,
        url_bi |-> blob_index_url, txt_bi |-> blob_index_txt,
        doc_json |-> doc_json, url_field |-> url_field,
        txt_field |-> txt_field, ev |-> ev, pc |-> pc]

Becomes(s) ==
    /\ prev_docID' = s.prev_docID
    /\ cur_position' = s.cur_position
    /\ term_index' = s.ti
    /\ math_index' = s.mi
    /\ offset_db' = s.ofs
    /\ blob_index_url' = s.url_bi
    /\ blob_index_txt' = s.txt_bi
    /\ doc_json' = s.doc_json
    /\ url_field' = s.url_field
    /\ txt_field' = s.txt_field
    /\ ev' = s.ev
    /\ pc' = s.pc

\* The statics are zero-initialised; indexer_assign hands over the stores.
\* The term index may already hold documents.
Init ==
    /\ prev_docID = 0
    /\ cur_position = 0
    /\ \E n \in InitLast :
          term_index = [last |-> n, open |-> FALSE, cur |-> <<>>,
                        docs |-> {}, nterms |-> 0]
    /\ math_index = {}
    /\ offset_db = [map |-> {}, dirty |-> FALSE]
    /\ blob_index_url = <<>>
    /\ blob_index_txt = <<>>
    /\ doc_json = [i \in 1..MAX_CORPUS_FILE_SZ |-> NUL]
    /\ url_field = ""
    /\ txt_field = ""
    /\ ev = <<>>
    /\ pc = "idle"
    /\ faults = 0

\* a call of indexer_index_json(fh, lex), until the lexer is entered
IndexJson(fh, over, blob_ok, fm_ok, max_faults) ==
    /\ pc = "idle"
    /\ faults + B2N(blob_ok) + B2N(fm_ok) <= max_faults
    /\ LET s == indexer_index_json_begin(Cur, fh, over, blob_ok, fm_ok) IN
       /\ s.pc # "idle" => term_index.last < MaxDocs
       /\ s.pc = "idle" => blob_ok /\ fm_ok
       /\ Becomes(s)
       /\ faults' = IF Len(s.ev) > 0 /\ s.ev[1].op = "blob_write_url"
                    THEN faults + B2N(blob_ok) + B2N(fm_ok) ELSE faults

\* the lexer calls back indexer_handle_slice(slice)
HandleSlice(slice, oks, max_tokens, max_faults) ==
    /\ pc = "lex"
    /\ term_index.nterms + NTokens(slice) <= max_tokens
    /\ faults + NFailed(oks) <= max_faults
    /\ Becomes(indexer_handle_slice(Cur, slice, oks))
    /\ faults' = faults + NFailed(oks)

\* the lexer returns, indexer_index_json runs to its end
LexerReturns(blob_ok, skew, ran, max_faults) ==
    /\ pc = "lex"
    /\ faults + B2N(blob_ok) + skew <= max_faults
    /\ Becomes(indexer_index_json_end(Cur, blob_ok, skew, ran))
    /\ faults' = faults + B2N(blob_ok) + skew

Next ==
    \/ \E fh \in Files, blob_ok \in BOOLEAN, fm_ok \in BOOLEAN :
          \E over \in Overreads(fread(doc_json, fh)) :
             IndexJson(fh, over, blob_ok, fm_ok, MaxFaults)
    \/ \E slice \in Slices : \E oks \in PutOutcomes(slice) :
          HandleSlice(slice, oks, MaxTokens, MaxFaults)
    \/ \E blob_ok \in BOOLEAN, skew \in 0..1, ran \in BOOLEAN :
          LexerReturns(blob_ok, skew, ran, MaxFaults)

Spec == Init /\ [][Next]_vars

\* the same machine fed every kind of envelope, with a smaller token budget
\* and stores that do not fail
NextEnv ==
    \/ \E fh \in EnvFiles, blob_ok \in BOOLEAN, fm_ok \in BOOLEAN :
          \E over \in Overreads(fread(doc_json, fh)) :
             IndexJson(fh, over, blob_ok, fm_ok, 0)
    \/ \E slice \in Slices : \E oks \in PutOutcomes(slice) :
          HandleSlice(slice, oks, EnvMaxTokens, 0)
    \/ \E blob_ok \in BOOLEAN, skew \in 0..1, ran \in BOOLEAN :
          LexerReturns(blob_ok, skew, ran, 0)

SpecEnv == Init /\ [][NextEnv]_vars

(***************************************************************************)
(* Vocabulary of the properties.                                           *)
(***************************************************************************)
\* positions in ev of the calls named op
At(op) == {i \in 1..Len(ev) : ev[i].op = op}
Has(op) == At(op) # {}
BlobOps == {"blob_write_url", "blob_write_txt"}
Diagnostics == {"corpus file too large!", "parser error", "JSON node not found",
                "put error", "parsing TeX error", "index maintaining",
                "fmemopen() function."}
\* offset entries of document d, and the positions they are stored under
Entries(d) == {e \in offset_db.map : e.docID = d}
EntryPos(d) == {e.pos : e \in Entries(d)}
\* puts of the document being indexed that failed
FailedPuts == {i \in At("put") : ~ev[i].ok /\ ev[i].docID = prev_docID + 1}
\* docIDs the term index has finalized
Finalized == {d.docID : d \in term_index.docs}
\* the step is a call of indexer_index_json that returned before indexing
RejectStep == pc = "idle" /\ pc' = "idle" /\ ev' # ev
\* the step is the end of a document: term_index_doc_end has been called
DocEndStep == pc = "lex" /\ pc' # "lex"
\* the events a step appended to ev
NewEv == SubSeq(ev', Len(ev) + 1, Len(ev'))
NewAt(op) == {i \in 1..Len(NewEv) : NewEv[i].op = op}
\* the step handled a math slice whose TeX did not parse
ParseFailStep == pc = "lex" /\ pc' = "lex" /\ NewAt("parsing TeX error") # {}

(***************************************************************************)
(* C1  DocID monotonicity.  Every document processed to completion gets    *)
(* from term_index_doc_end the docID prev_docID + 1, which is stored in    *)
(* prev_docID: the docIDs of the completed documents are consecutive, with *)
(* no gap, from the first one the store returned.                          *)
(***************************************************************************)
C1_DocIDsConsecutive ==
    /\ [](pc \in {"idle", "lex"} => Finalized = 1..prev_docID)
    /\ [][prev_docID' # prev_docID =>
             /\ prev_docID' = prev_docID + 1
             /\ term_index'.last = prev_docID'
             /\ Finalized' = Finalized \cup {prev_docID'}]_vars

C1_Witness == pc = "idle" /\ prev_docID = 2 /\ Finalized = {1, 2}

(***************************************************************************)
(* C2  Position/offset coverage.  As claimed: in every state the offset    *)
(* store holds, for the document being indexed, as many entries as         *)
(* positions consumed.                                                     *)
(***************************************************************************)
C2_EntriesEqualPositions ==
    Cardinality(Entries(prev_docID + 1)) = cur_position

(***************************************************************************)
(* C2, amended.  Every token makes exactly one call of save_offset; the    *)
(* entries of the document being indexed plus the puts that failed are as  *)
(* many as the positions consumed, the entries being those of the          *)
(* positions whose put succeeded.                                          *)
(***************************************************************************)
C2_EntriesPlusFailedPuts ==
    /\ Cardinality(Entries(prev_docID + 1)) + Cardinality(FailedPuts) = cur_position
    /\ EntryPos(prev_docID + 1) =
          {ev[i].pos : i \in {j \in At("put") : ev[j].ok /\ ev[j].docID = prev_docID + 1}}
    /\ pc = "lex" => Cardinality({i \in At("put") : ev[i].docID = prev_docID + 1})
                        = cur_position

C2_Witness ==
    /\ pc = "lex" /\ cur_position = 3
    /\ Has("parsing TeX error") /\ Has("math_add") /\ FailedPuts # {}

(***************************************************************************)
(* C3  Envelope rejection.  A call of indexer_index_json that rejects its  *)
(* document (too large, url or text absent) writes no blob, makes no call  *)
(* on the term index, the math index or the offset store, and leaves       *)
(* prev_docID and cur_position as they were: it only prints a diagnostic.  *)
(***************************************************************************)
C3_RejectionHasNoSideEffects ==
    [][RejectStep =>
          /\ UNCHANGED <<prev_docID, cur_position, term_index, math_index,
                         offset_db, blob_index_url, blob_index_txt>>
          /\ \A i \in 1..Len(ev') : ev'[i].op \in Diagnostics]_vars

C3_Witness ==
    /\ pc = "idle" /\ prev_docID = 1 /\ Len(blob_index_url) = 1
    /\ offset_db.map # {}
    /\ ev = <<Ev("corpus file too large!", 0, 0, TRUE)>>

(***************************************************************************)
(* C4  Fatal-invariant detection.  When term_index_doc_end returns a docID *)
(* other than prev_docID + 1 the assertion fails and the process aborts:   *)
(* prev_docID keeps its value, neither the update nor the maintenance      *)
(* check runs, and nothing is processed afterwards.                        *)
(***************************************************************************)
C4_WrongDocIDAborts ==
    /\ [][(DocEndStep /\ term_index'.last # prev_docID + 1) =>
             /\ pc' = "aborted"
             /\ prev_docID' = prev_docID
             /\ cur_position' = cur_position
             /\ NewAt("update") = {} /\ NewAt("maintain") = {}]_vars
    /\ [][pc = "aborted" => UNCHANGED vars]_vars

C4_Witness ==
    /\ pc = "aborted" /\ prev_docID = 1 /\ term_index.last = 3
    /\ ev[Len(ev)] = Ev("assert", 3, 0, FALSE)

(***************************************************************************)
(* C5  Predicted blob key.  Both blob writes of a document use the key     *)
(* prev_docID + 1 as it stood when the document started, and for a         *)
(* document processed to completion this is the docID term_index_doc_end   *)
(* returned; the blobs stored carry that key.                              *)
(***************************************************************************)
\* the document of the current invocation has been processed to completion
Completed == pc = "idle" /\ Has("update")

C5_BlobKeyIsDocID ==
    /\ pc = "lex" => /\ Cardinality(At("blob_write_url")) = 1
                     /\ \A i \in At("blob_write_url") : ev[i].docID = prev_docID + 1
    /\ Completed =>
          /\ Cardinality(At("blob_write_url")) = 1
          /\ Cardinality(At("blob_write_txt")) = 1
          /\ \A i \in At("blob_write_url") \cup At("blob_write_txt") \cup At("doc_end") :
                ev[i].docID = prev_docID
          /\ \A i \in At("blob_write_url") :
                ev[i].ok => blob_index_url[Len(blob_index_url)].docID = prev_docID
          /\ \A i \in At("blob_write_txt") :
                ev[i].ok => blob_index_txt[Len(blob_index_txt)].docID = prev_docID

C5_Witness ==
    /\ Completed /\ prev_docID = 2
    /\ Len(blob_index_url) = 2 /\ Len(blob_index_txt) = 2
    /\ blob_index_url[2].docID = 2 /\ blob_index_txt[2].docID = 2

(***************************************************************************)
(* C6  Order of the side effects.  For an accepted document the steps run  *)
(* in the order URL blob write, document begin, slice handling, text blob  *)
(* write, document end, docID check, update of prev_docID with reset of    *)
(* cur_position, maintenance check; each step but slice handling runs      *)
(* once, none is skipped, and a completed document has run them all.       *)
(***************************************************************************)
Phase(op) ==
    CASE op = "blob_write_url" -> 1
      [] op = "doc_begin"      -> 2
      [] op \in {"doc_add", "math_add", "put"} -> 3
      [] op = "blob_write_txt" -> 4
      [] op = "doc_end"        -> 5
      [] op = "assert"         -> 6
      [] op = "update"         -> 7
      [] op = "maintain"       -> 8
      [] op = "flush"          -> 9
      [] OTHER                 -> 0
\* the calls of ev, without the diagnostics
Steps == SelectSeq(ev, LAMBDA e : Phase(e.op) # 0)
PhasesRun == {Phase(Steps[i].op) : i \in 1..Len(Steps)}

C6_PipelineOrder ==
    LET st  == Steps
        ph  == [i \in 1..Len(st) |-> Phase(st[i].op)]
        run == {ph[i] : i \in 1..Len(st)}
    IN /\ \A i \in 1..(Len(st) - 1) :
             ph[i] < ph[i+1] \/ (ph[i] = 3 /\ ph[i+1] = 3)
       /\ \A p \in run : \A q \in 1..8 : (q < p /\ q # 3) => q \in run
       /\ pc = "lex" => run \in {{1, 2}, {1, 2, 3}}
       /\ Completed => (1..8) \ {3} \subseteq run
       /\ (pc = "idle" /\ st # <<>>) => Completed
       /\ Completed => prev_docID = st[1].docID /\ cur_position = 0

C6_Witness ==
    /\ Completed
    /\ PhasesRun = 1..9
    /\ Len(Steps) > 9

(***************************************************************************)
(* C7  Math/term synchronisation.  While a document is indexed the number  *)
(* of terms appended to the term index for it equals cur_position; every   *)
(* math slice appends exactly one "math_exp" term and consumes exactly one *)
(* position, and a math expression is indexed under the position of its    *)
(* sentinel term.                                                          *)
(***************************************************************************)
\* terms the term index holds for document d at the positions 0, 1, ...
TermsOf(d) ==
    IF term_index.open /\ d = prev_docID + 1 THEN term_index.cur
    ELSE IF \E x \in term_index.docs : x.docID = d
         THEN (CHOOSE x \in term_index.docs : x.docID = d).terms
         ELSE <<>>
Sentinels(terms) == {i \in 1..Len(terms) : terms[i] = "math_exp"}

C7_TermsMatchPositions ==
    /\ pc = "lex" => Len(term_index.cur) = cur_position
    /\ pc = "lex" => Cardinality(Sentinels(term_index.cur))
                        = Cardinality(At("math_add")) + Cardinality(At("parsing TeX error"))
    /\ \A m \in math_index : pc \in {"idle", "lex"} =>
          /\ m.pos < Len(TermsOf(m.docID))
          /\ TermsOf(m.docID)[m.pos + 1] = "math_exp"
    /\ \A i \in At("put") : (pc = "lex" /\ i > 1 /\ ev[i-1].op \in {"math_add", "parsing TeX error"})
          => term_index.cur[ev[i].pos + 1] = "math_exp"

C7_Witness ==
    /\ pc = "lex" /\ cur_position = 3
    /\ term_index.cur = <<"the", "math_exp", "the">>
    /\ math_index = {[docID |-> 1, pos |-> 1, subpaths |-> "x^2"]}

(***************************************************************************)
(* C8  Ordering.  As claimed: an offset entry for position k of a document *)
(* is in the store only together with the entries for the positions        *)
(* 0..k-1 of that document.                                                *)
(***************************************************************************)
C8_EntriesHaveNoHoles ==
    \A e \in offset_db.map : \A j \in 0..(e.pos - 1) : j \in EntryPos(e.docID)

(***************************************************************************)
(* C8, amended.  save_offset is called in position order: the n-th call    *)
(* made for a document is for position n-1, so when the entry for position *)
(* k is written, save_offset has been called for each of 0..k-1, and the   *)
(* store holds an entry for each of them whose put did not fail.           *)
(***************************************************************************)
\* the puts of the current invocation, in the order they were made
Puts == SelectSeq(ev, LAMBDA e : e.op = "put")

C8_PutsInPositionOrder ==
    LET puts == Puts IN
    /\ \A n \in 1..Len(puts) :
          /\ puts[n].pos = n - 1
          /\ puts[n].docID = puts[1].docID
          /\ puts[n].ok <=> (n - 1) \in EntryPos(puts[n].docID)
    /\ EntryPos(prev_docID + 1) \subseteq 0..(cur_position - 1)
    /\ pc = "lex" => Len(puts) = cur_position

C8_Witness ==
    /\ Len(Puts) = 3
    /\ ~Puts[1].ok /\ Puts[2].ok /\ Puts[3].ok
    /\ EntryPos(prev_docID + 1) = {1, 2}

(***************************************************************************)
(* C9  TeX parse failure.  As claimed: a math slice whose TeX does not     *)
(* parse makes no call on the math index, leaves an offset entry for       *)
(* (prev_docID + 1, cur_position) in the store and advances cur_position   *)
(* by one.                                                                 *)
(***************************************************************************)
C9_FailedParseRecordsOffset ==
    [][ParseFailStep =>
          /\ math_index' = math_index
          /\ cur_position' = cur_position + 1
          /\ \E e \in offset_db'.map :
                e.docID = prev_docID + 1 /\ e.pos = cur_position]_vars

(***************************************************************************)
(* C9, amended.  A math slice whose TeX does not parse makes no call on    *)
(* the math index, calls save_offset once, for (prev_docID + 1,            *)
(* cur_position) with the slice's offset and length, and advances          *)
(* cur_position by one; the entry is in the store unless keyval_db_put     *)
(* failed, in which case "put error" is printed and the store is unchanged.*)
(***************************************************************************)
C9_FailedParseCallsSaveOffset ==
    [][ParseFailStep =>
          /\ math_index' = math_index
          /\ NewAt("math_add") = {}
          /\ cur_position' = cur_position + 1
          /\ prev_docID' = prev_docID
          /\ Cardinality(NewAt("put")) = 1
          /\ \A i \in NewAt("put") :
                /\ NewEv[i].docID = prev_docID + 1
                /\ NewEv[i].pos = cur_position
                /\ NewEv[i].ok =>
                      offset_db'.map = offset_db.map \cup
                         {[docID |-> prev_docID + 1, pos |-> cur_position,
                           offset |-> SliceMathBad.offset,
                           n_bytes |-> SliceMathBad.str_sz]}
                /\ ~NewEv[i].ok =>
                      /\ offset_db' = offset_db
                      /\ NewAt("put error") # {}]_vars

C9_Witness ==
    /\ pc = "lex" /\ cur_position = 2
    /\ term_index.cur = <<"the", "math_exp">>
    /\ ev[Len(ev) - 1] = Ev("parsing TeX error", 0, 0, TRUE)
    /\ ev[Len(ev)] = Ev("put", prev_docID + 1, 1, TRUE)
    /\ math_index = {}
    /\ EntryPos(prev_docID + 1) = {0, 1}

(***************************************************************************)
(* C10  Blob failure.  As claimed: a blob write that fails is reported by  *)
(* index_blob (a diagnostic follows the failed write), and the document is *)
(* still finalized, prev_docID advancing.                                  *)
(***************************************************************************)
FailedBlobWrites == {i \in At("blob_write_url") \cup At("blob_write_txt") : ~ev[i].ok}

C10_BlobFailureReported ==
    /\ \A i \in FailedBlobWrites :
          \E j \in 1..Len(ev) : j > i /\ ev[j].op = "blob write error"
    /\ (FailedBlobWrites # {} /\ pc = "idle") =>
          /\ Completed
          /\ prev_docID \in Finalized

(***************************************************************************)
(* C11  Offset keys are written once.  Every call of save_offset uses a    *)
(* key (prev_docID + 1, cur_position) above every key used before it, in   *)
(* this document and in the earlier ones: no two calls share a key and no  *)
(* entry of the offset store is ever replaced.                             *)
(***************************************************************************)
\* the step is one call of indexer_handle_slice
SliceStep == pc = "lex" /\ pc' = "lex"
\* key (d1, p1) is below key (d2, p2)
KeyBelow(d1, p1, d2, p2) == d1 < d2 \/ (d1 = d2 /\ p1 < p2)

C11_OffsetKeysWrittenOnce ==
    /\ [][SliceStep =>
             LET new == NewEv IN
             /\ \A i \in 1..Len(new) : new[i].op = "put" =>
                   /\ new[i].docID = prev_docID + 1
                   /\ \A e \in offset_db.map :
                         KeyBelow(e.docID, e.pos, new[i].docID, new[i].pos)
                   /\ \A j \in At("put") :
                         KeyBelow(ev[j].docID, ev[j].pos, new[i].docID, new[i].pos)
                   /\ \A j \in 1..(i - 1) : new[j].op = "put" =>
                         KeyBelow(new[j].docID, new[j].pos, new[i].docID, new[i].pos)
             /\ offset_db.map \subseteq offset_db'.map
             /\ Cardinality(offset_db'.map) = Cardinality(offset_db.map) +
                   Cardinality({i \in 1..Len(new) : new[i].op = "put" /\ new[i].ok})]_vars
    /\ [][~SliceStep => offset_db'.map = offset_db.map]_vars
    /\ [][prev_docID' >= prev_docID]_vars

C11_Witness ==
    /\ pc = "lex" /\ prev_docID = 1
    /\ EntryPos(1) = {0, 1} /\ EntryPos(2) = {0}
    /\ Cardinality(offset_db.map) = 3

(***************************************************************************)
(* C12  Position reset.  Whenever a document begins in the term index,     *)
(* cur_position is 0, whatever documents were accepted or rejected before: *)
(* cur_position is 0 between documents and the first token of a document   *)
(* is recorded under position 0.                                           *)
(***************************************************************************)
\* the step is a call of indexer_index_json that reaches term_index_doc_begin
DocBeginStep == pc = "idle" /\ pc' = "lex"

C12_PositionZeroAtDocBegin ==
    /\ [](pc = "idle" => cur_position = 0)
    /\ [][DocBeginStep =>
             /\ cur_position = 0 /\ cur_position' = 0
             /\ Cardinality({i \in 1..Len(ev') : ev'[i].op = "doc_begin"}) = 1]_vars
    /\ [](\A i \in At("put") : (\A j \in At("put") : i <= j) => ev[i].pos = 0)

C12_Witness ==
    /\ pc = "lex" /\ prev_docID = 1 /\ cur_position = 0
    /\ Has("doc_begin")
    /\ EntryPos(1) = {0}

(***************************************************************************)
(* C13  Offset after append, before advance.  In both token paths the      *)
(* offset is saved after the token has been appended to the term index and *)
(* before cur_position advances: when save_offset is called for position p *)
(* exactly p + 1 tokens have been appended to the document, the last of    *)
(* them at position p, and the offset store holds no entry for a position  *)
(* at which the document has no token.                                     *)
(***************************************************************************)
C13_OffsetAfterAppend ==
    LET adds == At("doc_add") IN
    /\ \A i \in At("put") :
          /\ Cardinality({j \in adds : j < i}) = ev[i].pos + 1
          /\ \E j \in adds : j < i /\ ev[j].pos = ev[i].pos
                                 /\ \A k \in adds : k < i => k <= j
    /\ pc = "lex" =>
          /\ \A e \in Entries(prev_docID + 1) : e.pos < Len(term_index.cur)
          /\ Len(term_index.cur) = cur_position
    /\ pc \in {"idle", "lex"} =>
          \A e \in offset_db.map : e.pos < Len(TermsOf(e.docID))

C13_Witness ==
    /\ pc = "lex" /\ cur_position = 3
    /\ term_index.cur = <<"math_exp", "is", "positive">>
    /\ EntryPos(prev_docID + 1) = {0, 1, 2}

(***************************************************************************)
(* C14  Maintenance backpressure.  When term_index_maintain ran, the       *)
(* progress line is printed, the pause is taken and the offset store is    *)
(* flushed, all before indexer_index_json returns, hence before any step   *)
(* of the next document; when it did not run, nothing is flushed.  No      *)
(* slice of a document is handled between a maintenance run and its flush. *)
(***************************************************************************)
\* the step is a call of indexer_index_json from its start
CallStep == pc = "idle" /\ ev' # ev

C14_FlushBeforeNextDocument ==
    /\ [][(DocEndStep /\ pc' = "idle") =>
             LET new == NewEv
                 n   == Len(new)
                 m   == {i \in 1..n : new[i].op = "maintain"}
             IN /\ Cardinality(m) = 1
                /\ \A i \in m :
                      IF new[i].ok
                      THEN /\ n = i + 3
                           /\ new[i+1].op = "index maintaining"
                           /\ new[i+2].op = "sleep"
                           /\ new[i+3].op = "flush"
                           /\ ~offset_db'.dirty
                           /\ offset_db'.map = offset_db.map
                      ELSE /\ n = i
                           /\ offset_db' = offset_db]_vars
    /\ [][CallStep =>
             \A i \in At("maintain") :
                ev[i].ok => (\E j \in At("flush") : j > i) /\ ~offset_db.dirty]_vars
    /\ [](pc = "lex" => ~Has("maintain") /\ ~Has("sleep") /\ ~Has("flush"))
    /\ [][~DocEndStep => (offset_db.dirty => offset_db'.dirty)]_vars

C14_Witness ==
    /\ pc = "lex" /\ prev_docID = 1
    /\ EntryPos(1) = {0, 1} /\ cur_position = 0
    /\ ~offset_db.dirty
    /\ Has("doc_begin")

(***************************************************************************)
(* C15  Blob channels.  Every document processed to completion makes       *)
(* exactly one write on the URL channel, of the raw url, and exactly one   *)
(* on the text channel, of the compressed text, both keyed by its docID;   *)
(* the records of a channel have increasing docIDs, one per document, and  *)
(* after N documents each channel holds N records unless a write failed.   *)
(***************************************************************************)
Increasing(bi) == \A i \in 2..Len(bi) : bi[i-1].docID < bi[i].docID

C15_OneBlobPerChannelPerDocument ==
    /\ [](Completed => /\ Cardinality(At("blob_write_url")) = 1
                       /\ Cardinality(At("blob_write_txt")) = 1)
    /\ [](/\ Increasing(blob_index_url) /\ Increasing(blob_index_txt)
          /\ \A i \in 1..Len(blob_index_url) : ~blob_index_url[i].blob.gz
          /\ \A i \in 1..Len(blob_index_txt) : blob_index_txt[i].blob.gz)
    /\ [](pc = "idle" =>
            /\ \A i \in 1..Len(blob_index_url) : blob_index_url[i].docID \in 1..prev_docID
            /\ \A i \in 1..Len(blob_index_txt) : blob_index_txt[i].docID \in 1..prev_docID
            /\ Len(blob_index_url) + Len(blob_index_txt) >= 2 * prev_docID - faults
            /\ faults = 0 => /\ Len(blob_index_url) = prev_docID
                             /\ Len(blob_index_txt) = prev_docID)
    /\ [][CallStep =>
             \A i \in 1..Len(ev') : ev'[i].op = "blob_write_url" =>
                IF ev'[i].ok
                THEN blob_index_url' = Append(blob_index_url,
                        [docID |-> prev_docID + 1, blob |-> raw_bytes(url_field')])
                ELSE blob_index_url' = blob_index_url]_vars
    /\ [][(DocEndStep /\ pc' = "idle") =>
             \A i \in NewAt("blob_write_txt") :
                IF NewEv[i].ok
                THEN blob_index_txt' = Append(blob_index_txt,
                        [docID |-> prev_docID', blob |-> codec_compress(txt_field)])
                ELSE blob_index_txt' = blob_index_txt]_vars
    /\ [][~CallStep => blob_index_url' = blob_index_url]_vars
    /\ [][~DocEndStep => blob_index_txt' = blob_index_txt]_vars

C15_Witness ==
    /\ pc = "idle" /\ prev_docID = 2 /\ faults = 0
    /\ blob_index_url = <<[docID |-> 1, blob |-> [gz |-> FALSE, data |-> "a"]],
                          [docID |-> 2, blob |-> [gz |-> FALSE, data |-> "a"]]>>
    /\ blob_index_txt = <<[docID |-> 1, blob |-> [gz |-> TRUE, data |-> "a"]],
                          [docID |-> 2, blob |-> [gz |-> TRUE, data |-> "a"]]>>

(***************************************************************************)
(* C16  Offset-store write failure.  A put that fails is logged ("put      *)
(* error"), stores nothing, and the pipeline goes on: the token keeps its  *)
(* position, the lexer continues, and when term_index_doc_end returns the  *)
(* predicted docID the document is finalized and prev_docID advances by 1. *)
(***************************************************************************)
PutFailedIn(evs) == \E i \in 1..Len(evs) : evs[i].op = "put" /\ ~evs[i].ok

C16_PutFailureIsRecoverable ==
    /\ [](\A i \in At("put") :
             ~ev[i].ok => i < Len(ev) /\ ev[i+1].op = "put error")
    /\ [][(pc = "lex" /\ Len(ev') > Len(ev) /\ PutFailedIn(NewEv)) =>
             LET new  == NewEv
                 puts == {i \in 1..Len(new) : new[i].op = "put"}
             IN /\ pc' = "lex"
                /\ prev_docID' = prev_docID
                /\ cur_position' = cur_position + Cardinality(puts)
                /\ Len(term_index'.cur) = cur_position'
                /\ Cardinality(offset_db'.map) = Cardinality(offset_db.map)
                      + Cardinality({i \in puts : new[i].ok})]_vars
    /\ [][(DocEndStep /\ PutFailedIn(ev) /\ term_index'.last = prev_docID + 1) =>
             /\ pc' = "idle"
             /\ prev_docID' = prev_docID + 1
             /\ prev_docID' \in Finalized'
             /\ cur_position' = 0]_vars

C16_Witness ==
    /\ Completed /\ prev_docID = 1
    /\ PutFailedIn(ev)
    /\ term_index.docs = {[docID |-> 1, terms |-> <<"the", "math_exp">>]}
    /\ EntryPos(1) = {0}

(***************************************************************************)
(* C17  Text and English slices.  A plain-text slice with base offset b    *)
(* and n segments indexes the segments in list order, one position each,   *)
(* and the offset recorded for a segment is its own offset plus b with its *)
(* own byte length; an English-text slice indexes exactly one term, with   *)
(* the slice's offset and its full length.  (An entry is absent only when  *)
(* its put failed.)                                                        *)
(***************************************************************************)
\* terms the step appended to the open document, and the puts it made
Appended == SubSeq(term_index'.cur, Len(term_index.cur) + 1, Len(term_index'.cur))
IsPut(e) == e.op = "put"
NewPuts == SelectSeq(NewEv, IsPut)
SegTerms(slice) == [i \in 1..Len(slice.segs) |-> slice.segs[i].str]
Recorded(d, p, offset, n_bytes, ok) ==
    IF ok
    THEN LET rec == [docID |-> d, pos |-> p, offset |-> offset, n_bytes |-> n_bytes]
         IN /\ rec \in offset_db'.map
            /\ \A e \in offset_db'.map : (e.docID = d /\ e.pos = p) => e = rec
    ELSE \A e \in offset_db'.map : ~(e.docID = d /\ e.pos = p)

C17_SegmentsIndexedInOrder ==
    [][SliceStep =>
         \A slice \in Slices :
            /\ (slice.type = "TEXT" /\ slice.segs # <<>> /\ Appended = SegTerms(slice)) =>
                  LET n == Len(slice.segs) IN
                  /\ cur_position' = cur_position + n
                  /\ Len(NewPuts) = n
                  /\ \A i \in 1..n :
                        /\ term_index'.cur[cur_position + i] = slice.segs[i].str
                        /\ NewPuts[i].docID = prev_docID + 1
                        /\ NewPuts[i].pos = cur_position + i - 1
                        /\ Recorded(prev_docID + 1, cur_position + i - 1,
                                    slice.segs[i].offset + slice.offset,
                                    slice.segs[i].n_bytes, NewPuts[i].ok)
            /\ (slice.type = "ENG_TEXT" /\ Appended = <<eng_to_lower_case(slice.mb_str)>>) =>
                  /\ cur_position' = cur_position + 1
                  /\ Len(NewPuts) = 1
                  /\ NewPuts[1].docID = prev_docID + 1
                  /\ NewPuts[1].pos = cur_position
                  /\ Recorded(prev_docID + 1, cur_position, slice.offset,
                              slice.str_sz, NewPuts[1].ok)]_vars

C17_Witness ==
    /\ pc = "lex" /\ cur_position = 3
    /\ term_index.cur = <<"the", "is", "positive">>
    /\ Entries(prev_docID + 1) =
          {[docID |-> prev_docID + 1, pos |-> 0, offset |-> 0, n_bytes |-> 3],
           [docID |-> prev_docID + 1, pos |-> 1, offset |-> 22, n_bytes |-> 2],
           [docID |-> prev_docID + 1, pos |-> 2, offset |-> 25, n_bytes |-> 8]}

(***************************************************************************)
(* C18  Entries carry the final docID.  Every offset entry and every math  *)
(* index entry written while a document is processed carries the docID     *)
(* that term_index_doc_end then returns for that document, and a math      *)
(* index entry has the (docID, position) of the offset entry recorded for  *)
(* its slice.                                                              *)
(***************************************************************************)
C18_EntriesCarryFinalDocID ==
    /\ \A i \in At("doc_end") :
          \A j \in At("put") \cup At("math_add") : ev[j].docID = ev[i].docID
    /\ \A j \in At("math_add") :
          /\ j < Len(ev)
          /\ ev[j+1].op = "put"
          /\ ev[j+1].docID = ev[j].docID /\ ev[j+1].pos = ev[j].pos

(***************************************************************************)
(* C19  Lifecycles do not nest.  The term index has a document open        *)
(* exactly while the lexer runs; an invocation makes at most one           *)
(* term_index_doc_begin, followed by exactly one term_index_doc_end before *)
(* the next invocation can begin another; every term_index_doc_add and     *)
(* every offset write lies between the begin and its end.                  *)
(***************************************************************************)
C19_LifecyclesDoNotNest ==
    /\ [](pc = "lex" <=> term_index.open)
    /\ [](/\ Cardinality(At("doc_begin")) <= 1
          /\ Cardinality(At("doc_end")) <= 1
          /\ pc # "lex" => Cardinality(At("doc_end")) = Cardinality(At("doc_begin"))
          /\ pc = "lex" => Has("doc_begin") /\ ~Has("doc_end"))
    /\ [](\A i \in At("doc_add") \cup At("put") :
             /\ \E b \in At("doc_begin") : b < i
             /\ \A e \in At("doc_end") : i < e)
    /\ [](\A e \in At("doc_end") : \E b \in At("doc_begin") : b < e)
    /\ [][CallStep => ~term_index.open]_vars
    /\ [][(term_index.open /\ ~term_index'.open) =>
             DocEndStep /\ Cardinality(NewAt("doc_end")) = 1]_vars
    /\ [][(~term_index.open /\ term_index'.open) => DocBeginStep]_vars
    /\ [][(term_index'.cur # term_index.cur /\ term_index'.cur # <<>>) =>
             term_index.open /\ term_index'.open]_vars
    /\ [][offset_db'.map # offset_db.map => term_index.open /\ term_index'.open]_vars

C19_Witness ==
    /\ pc = "lex" /\ prev_docID = 1 /\ term_index.open
    /\ Finalized = {1}
    /\ term_index.cur = <<"the">>
    /\ EntryPos(1) # {} /\ EntryPos(2) = {0}

(***************************************************************************)
(* C20  Acceptance depends on the document's own envelope only.  A         *)
(* well-formed envelope below the maximum size is accepted and indexed     *)
(* with its own url and text fields, whatever was read before it.          *)
(***************************************************************************)
\* well-formed envelopes below MAX_CORPUS_FILE_SZ, and the fields they hold
WellFormed == {fh \in EnvFiles :
                 /\ Len(fh) < MAX_CORPUS_FILE_SZ
                 /\ get_json_val(fh, "url", "").ok
                 /\ get_json_val(fh, "text", "").ok}
OwnVal(fh, key) == get_json_val(fh, key, "").val

C20_AcceptanceDependsOnOwnEnvelope ==
    [][\A fh \in WellFormed :
          (CallStep /\ doc_json' = fread(doc_json, fh)) =>
             /\ pc' = "lex"
             /\ url_field' = OwnVal(fh, "url")
             /\ txt_field' = OwnVal(fh, "text")
             /\ \E i \in 1..Len(ev') : ev'[i].op = "blob_write_url"]_vars

====
